---- MODULE Spec2Model ----
(***************************************************************************)
(* Strike core: the shared requestAnimationFrame ticker (the "Clock").     *)
(*                                                                         *)
(* Program state of src/timing/ticker.ts: listeners, rafId, lastTs,        *)
(* accTime.  The host is modelled by the queue of pending frame requests   *)
(* (requestAnimationFrame / cancelAnimationFrame) and the frame timestamp. *)
(* A pulse (one run of loop) is split at each callback invocation, because *)
(* a callback is foreign code that may re-enter onTick, an unsubscribe     *)
(* function or stopTicker before it returns.                               *)
(*                                                                         *)
(* The ActionChannel of src/timing/actions.ts is a second specification,   *)
(* SpecCh, over its own variables: actions, running, unsub, the Scheduled  *)
(* objects, and the position of step inside its for-of.  The Clock is seen *)
(* from the channel as the set of tick handlers it holds for the channel.  *)
(*                                                                         *)
(* The viewports (CameraViewport, CageViewport) are SpecView and SpecSize, *)
(* the surface of createSurface with its ViewManager and its subscription  *)
(* to the Clock is SpecSurf, SpecFrame and SpecFollow, and the actor of    *)
(* createActor with its named channels is SpecActor and SpecSheet.  Each   *)
(* specification moves its own group of variables and leaves the others.   *)
(***************************************************************************)
EXTENDS Integers, Sequences, FiniteSets, TLC

\* ------------------------------------------------------------------ bounds
MaxPulses == 2          \* pulses the host delivers in one behaviour
MaxRegs == 2            \* calls of onTick in one behaviour
MaxUnsubCalls == 2      \* calls of one returned unsubscribe function
MaxObjs == 2            \* every/once calls on the channel in one behaviour
MaxTicks == 2           \* step calls on the channel in one behaviour

\* --------------------------------------------------------------- constants
MAX_DT == 100
Null == -1              \* the value null of rafId and lastTs

Handlers == {"f", "g"}          \* callback identities passed to onTick
Gaps == {16, 5000}              \* ms between two consecutive frames

VARIABLES
    listeners,  \* Set<TickHandler>, kept in insertion order (JS Set)
    rafId,      \* id of the request the ticker believes pending, or Null
    lastTs,     \* timestamp baseline, or Null
    accTime,    \* accumulated clamped time
    pending,    \* host: requested and not yet run or cancelled frame callbacks
    frameQ,     \* host: how many requests at the head of pending belong to
                \*       the frame being delivered (they get its timestamp)
    now,        \* host: timestamp of the frame being delivered
    pc,         \* "idle" or "calling" (inside loop, between its callbacks)
    snapshot,   \* loop's local: Array.from(listeners)
    idx,        \* loop's local: position of the for-of over snapshot
    dt,         \* loop's local: clamped delta of this pulse
    closures,   \* the unsubscribe functions onTick has returned so far:
                \*   h = captured handler, calls = times it was called
    invoked,    \* observation: the calls fn(dt, time) made by this pulse
    atStart,    \* observation: listeners when this pulse started
    threwNow,   \* observation: a callback of this (or, between pulses, the
                \*   last) pulse has thrown
    escaped,    \* observation: an exception has left loop
    pulses,     \* observation: pulses delivered so far
    sumDt,      \* observation: sum of the deltas of all pulses so far
    wentIdle,   \* observation: the last completed pulse ended with no listener
    dropped,    \* observation: an unsubscribe took the set from 1 to 0 and no
                \*   pulse that delivered to a callback has completed since
    stopped,    \* observation: stopTicker ran, and since then onTick was not
                \*   called and no pulse has ended
    selfStop    \* observation: the running callback has removed itself, it was
                \*   the last listener, and onTick was not called since

clockVars == <<listeners, rafId, lastTs, accTime, pending, frameQ, now, pc,
               snapshot, idx, dt, closures, invoked, atStart, threwNow,
               escaped, pulses, sumDt, wentIdle, dropped, stopped, selfStop>>

\* ------------------------------------------------- ActionChannel: the state
VARIABLES
    actions,    \* this.actions: Scheduled[], as the ids of the objects
    unsub,      \* this.unsub: the tick handler its closure removes, or Null
    running,    \* this.running
    objs,       \* the Scheduled objects created so far, by id: kind, name,
                \*   every (interval or delay), elapsed, catchUp, and the
                \*   observations fired (calls made by step), imm (calls made
                \*   by every with immediate), got (sum of the dt credited),
                \*   seen (ticks that credited it), born (the tick whose
                \*   callback created it, 0 when created outside step)
    subs,       \* Clock: the tick handlers of this channel in listeners
    cpc,        \* "idle" or "step" (inside step, in its for-of)
    items,      \* step's local: this.actions.slice()
    si,         \* step's local: position of the for-of over items
    phase,      \* step's local: "advance" (before a.elapsed += dt) or
                \*   "called" (a.fn() is running and may re-enter the channel)
    fireLeft,   \* step's local: calls of a.fn still to make for this item
    stepDt,     \* step's parameter dt
    ticks,      \* observation: calls of step that entered its for-of
    eCredit,    \* observation: a.elapsed of this item right after += dt
    madeCalls,  \* observation: calls of a.fn made for this item in this tick
    chEscaped,  \* observation: an error of a callback left every or step
    threwAt,    \* observation: the last callback that threw (action id, tick,
                \*   and whether it was the immediate call of every)
    destroyedTo \* observation: the number of objects created before the
                \*   destroy a callback of the tick in progress made (0
                \*   without one)

chObs == <<chEscaped, threwAt, destroyedTo>>

chVars == <<actions, unsub, running, objs, subs, cpc, items, si, phase,
            fireLeft, stepDt, ticks, eCredit, madeCalls, chObs>>

\* ------------------------------------------------------ viewport: the state
VARIABLES
    vpKind,     \* the class of the viewport: "camera" or "cage"
    follow,     \* CameraViewport.follow
    deadzone,   \* CameraViewport.deadzone: <<dx, dy>>
    padding,    \* CameraViewport.padding: <<px, py>>
    baseSize,   \* CameraViewport.baseSize: <<w, h>>, or NoSize
    camX,       \* camX of the viewport
    camY,       \* camY of the viewport
    lastView,   \* observation: the view of the last updateFollow, NoView
                \*   when it was called without one, NoCall before any call
    prevCam,    \* observation: <<camX, camY>> before the last updateFollow
    clientBox,  \* <<clientWidth, clientHeight>> of the canvas' parent
    sizeArg,    \* observation: the view of the last getLogicalSize called
                \*   on the viewport from outside, NoCall before any
    sizeRet     \* observation: what that call returned

sizeVars == <<clientBox, sizeArg, sizeRet>>

viewVars == <<vpKind, follow, deadzone, padding, baseSize, camX, camY,
              lastView, prevCam, sizeVars>>

\* -------------------------------------------------------- surface: the state
VARIABLES
    sMade,      \* createSurface has run
    created,    \* the ViewModel objects views.add has made, by id: z and
                \*   the geometry the viewport reads (anchor, x, y, sw, sh,
                \*   scale)
    sViews,     \* ViewManager.views: the ids, in the order of the array
    sFollow,    \* follow: the id of the followed view, 0 for undefined
    unsubTick,  \* unsubTick: the tick handler its closure removes, 0 for null
    tickSubs,   \* Clock: listeners, in insertion order; the handlers of the
                \*   surface by number, 0 for a subscriber that is not its
    hMade,      \* the closures (dt) => frame(dt) play has made so far
    stack,      \* the calls in progress, innermost last: "pulse" (loop of
                \*   the Clock), "other" (the callback of the other
                \*   subscriber), "frame" and "play" (the listeners of the
                \*   'resize' event they emit)
    sSnap,      \* loop's local: Array.from(listeners)
    sIdx,       \* loop's local: position of the for-of over the snapshot
    rlog,       \* observation: the calls the last frame() made on the
                \*   viewport and the renderer, in order
    sPulses,    \* observation: pulses delivered so far
    sincePause, \* observation: "none", or since the last pause() returned
                \*   with no play() called after it: "quiet" (no call of
                \*   frame() on the viewport or the renderer), "rendered"
    framesNow   \* observation: calls of frame() in the pulse in progress

surfVars == <<sMade, created, sViews, sFollow, unsubTick, tickSubs, hMade,
              stack, sSnap, sIdx, rlog, sPulses, sincePause, framesNow>>

\* ---------------------------------------------------------- actor: the state
VARIABLES
    aMade,      \* createActor has run
    aFrames,    \* sheet.frames
    aFrame,     \* state.frame
    aLoops,     \* state.loops
    aPlaying,   \* state.playing
    chans,      \* channels: the Map in insertion order, per channel its
                \*   name, running, and the elapsed time of its actions
    aRet,       \* observation: the channel the last channel() returned, as
                \*   its position in the Map
    aOp,        \* observation: the last call made on the actor or on one of
                \*   its channels ("resume" for a start() that found the
                \*   actor not playing)
    aTicks      \* observation: pulses delivered so far

actVars == <<aMade, aFrames, aFrame, aLoops, aPlaying, chans, aRet, aOp,
             aTicks>>

vars == <<clockVars, chVars, viewVars, surfVars, actVars>>

hostVars == <<pending, frameQ, now>>
loopVars == <<pc, snapshot, idx, dt>>

\* ----------------------------------------------------------------- helpers
Min(a, b) == IF a < b THEN a ELSE b

Range(s) == {s[i] : i \in 1..Len(s)}

\* Set.prototype.add: appends unless already a member
SetAdd(s, h) == IF h \in Range(s) THEN s ELSE Append(s, h)

\* Set.prototype.delete: removes the member, keeps the order of the rest
SetDelete(s, h) == SelectSeq(s, LAMBDA x : x # h)

\* requestAnimationFrame returns an id no pending request carries
FreshId == CHOOSE i \in 1..(Len(pending) + 1) : i \notin Range(pending)

\* a caller exists: host code between pulses, or the callback that the
\* for-of of loop has invoked last and that has not returned yet
CanCall == pc = "idle" \/ (pc = "calling" /\ idx > 1)

\* the callback the for-of of loop has invoked last (it may not have returned)
Running == invoked[Len(invoked)].fn

\* --------------------------------------------------------------------- Init
Init ==
    /\ listeners = <<>>
    /\ rafId = Null
    /\ lastTs = Null
    /\ accTime = 0
    /\ pending = <<>>
    /\ frameQ = 0
    /\ now = 0
    /\ pc = "idle"
    /\ snapshot = <<>>
    /\ idx = 1
    /\ dt = 0
    /\ closures = <<>>
    /\ invoked = <<>>
    /\ atStart = <<>>
    /\ threwNow = FALSE
    /\ escaped = FALSE
    /\ pulses = 0
    /\ sumDt = 0
    /\ wentIdle = FALSE
    /\ dropped = FALSE
    /\ stopped = FALSE
    /\ selfStop = FALSE
    /\ actions = <<>>
    /\ unsub = Null
    /\ running = FALSE
    /\ objs = <<>>
    /\ subs = {}
    /\ cpc = "idle"
    /\ items = <<>>
    /\ si = 1
    /\ phase = "advance"
    /\ fireLeft = 0
    /\ stepDt = 0
    /\ ticks = 0
    /\ eCredit = 0
    /\ madeCalls = 0
    /\ chEscaped = FALSE
    /\ threwAt = [id |-> 0, tick |-> 0, imm |-> FALSE]
    /\ destroyedTo = 0
    /\ vpKind = "camera"
    /\ follow = "center"
    /\ deadzone = <<0, 0>>
    /\ padding = <<0, 0>>
    /\ baseSize = <<0, 0>>
    /\ camX = 0
    /\ camY = 0
    /\ lastView = [anchor |-> "no call", x |-> 0, y |-> 0, sw |-> 0, sh |-> 0,
                   scale |-> 0]
    /\ prevCam = <<0, 0>>
    /\ clientBox = <<0, 0>>
    /\ sizeArg = [anchor |-> "no call", x |-> 0, y |-> 0, sw |-> 0, sh |-> 0,
                  scale |-> 0]
    /\ sizeRet = <<0, 0>>
    /\ sMade = FALSE
    /\ created = <<>>
    /\ sViews = <<>>
    /\ sFollow = 0
    /\ unsubTick = 0
    /\ tickSubs = <<>>
    /\ hMade = 0
    /\ stack = <<>>
    /\ sSnap = <<>>
    /\ sIdx = 1
    /\ rlog = <<>>
    /\ sPulses = 0
    /\ sincePause = "none"
    /\ framesNow = 0
    /\ aMade = FALSE
    /\ aFrames = 0
    /\ aFrame = 0
    /\ aLoops = 0
    /\ aPlaying = FALSE
    /\ chans = <<>>
    /\ aRet = 0
    /\ aOp = "none"
    /\ aTicks = 0

\* onTick with the frame requested for the first listener only
OnTickFirstOnly(h) ==
    /\ CanCall
    /\ Len(closures) < MaxRegs
    /\ listeners' = SetAdd(listeners, h)
    /\ IF listeners = <<>> /\ rafId = Null
          THEN /\ rafId' = FreshId
               /\ pending' = Append(pending, FreshId)
          ELSE UNCHANGED <<rafId, pending>>
    /\ closures' = Append(closures, [h |-> h, calls |-> 0])
    /\ stopped' = FALSE
    /\ selfStop' = FALSE
    /\ UNCHANGED <<lastTs, accTime, frameQ, now, loopVars, invoked, atStart,
                   threwNow, escaped, pulses, sumDt, wentIdle, dropped>>
    /\ UNCHANGED <<chVars, viewVars, surfVars, actVars>>

\* ------------------------------------------------------------------ onTick
\* onTick(handler): add, request a frame when none is believed pending,
\* return the closure () => listeners.delete(handler)
OnTick(h) ==
    /\ CanCall
    /\ Len(closures) < MaxRegs
    /\ listeners' = SetAdd(listeners, h)
    /\ IF rafId = Null
          THEN /\ rafId' = FreshId
               /\ pending' = Append(pending, FreshId)
          ELSE UNCHANGED <<rafId, pending>>
    /\ closures' = Append(closures, [h |-> h, calls |-> 0])
    /\ stopped' = FALSE
    /\ selfStop' = FALSE
    /\ UNCHANGED <<lastTs, accTime, frameQ, now, loopVars, invoked, atStart,
                   threwNow, escaped, pulses, sumDt, wentIdle, dropped>>
    /\ UNCHANGED <<chVars, viewVars, surfVars, actVars>>

\* the function onTick returned: listeners.delete(handler)
Unsubscribe(c) ==
    /\ CanCall
    /\ c \in 1..Len(closures)
    /\ closures[c].calls < MaxUnsubCalls
    /\ listeners' = SetDelete(listeners, closures[c].h)
    /\ closures' = [closures EXCEPT ![c].calls = @ + 1]
    /\ dropped' = (dropped \/ (Len(listeners) = 1 /\ listeners' = <<>>))
    /\ selfStop' = (selfStop \/ (/\ pc = "calling"
                                 /\ listeners = <<closures[c].h>>
                                 /\ Running = closures[c].h))
    /\ UNCHANGED <<rafId, lastTs, accTime, hostVars, loopVars, invoked,
                   atStart, threwNow, escaped, pulses, sumDt, wentIdle, stopped>>
    /\ UNCHANGED <<chVars, viewVars, surfVars, actVars>>

\* stopTicker that also restarts the accumulated time
StopTickerResetsTime ==
    /\ CanCall
    /\ IF rafId # Null
          THEN /\ pending' = SetDelete(pending, rafId)
               /\ rafId' = Null
          ELSE UNCHANGED <<pending, rafId>>
    /\ lastTs' = Null
    /\ accTime' = 0
    /\ stopped' = TRUE
    /\ UNCHANGED <<listeners, frameQ, now, loopVars, closures,
                   invoked, atStart, threwNow, escaped, pulses, sumDt, wentIdle,
                   dropped, selfStop>>
    /\ UNCHANGED <<chVars, viewVars, surfVars, actVars>>

\* -------------------------------------------------------------- stopTicker
StopTicker ==
    /\ CanCall
    /\ IF rafId # Null
          THEN /\ pending' = SetDelete(pending, rafId)
               /\ rafId' = Null
          ELSE UNCHANGED <<pending, rafId>>
    /\ lastTs' = Null
    /\ stopped' = TRUE
    /\ UNCHANGED <<listeners, accTime, frameQ, now, loopVars, closures,
                   invoked, atStart, threwNow, escaped, pulses, sumDt, wentIdle,
                   dropped, selfStop>>
    /\ UNCHANGED <<chVars, viewVars, surfVars, actVars>>

\* the delta without the clamp
RawDelta(ts, last) == ts - (IF last = Null THEN ts ELSE last)

\* -------------------------------------------------------------------- loop
\* dt = Math.min(ts - lastTs, MAX_DT), lastTs seeded with ts when null
ClampedDelta(ts, last) == Min(ts - (IF last = Null THEN ts ELSE last), MAX_DT)

\* loop(ts) up to the for-of: the host runs the oldest pending request.  The
\* requests pending when a frame starts all run in that frame, with its
\* timestamp; a later frame has a later timestamp.
LoopBegin ==
    /\ pc = "idle"
    /\ pending # <<>>
    /\ pulses < MaxPulses
    /\ \E gap \in Gaps :
         LET ts == IF frameQ > 0 THEN now ELSE now + gap
             d  == ClampedDelta(ts, lastTs)
         IN  /\ (frameQ > 0 => gap = 16)
             /\ now' = ts
             /\ frameQ' = IF frameQ > 0 THEN frameQ - 1 ELSE Len(pending) - 1
             /\ lastTs' = ts
             /\ dt' = d
             /\ accTime' = accTime + d
             /\ sumDt' = sumDt + d
    /\ pending' = Tail(pending)
    /\ rafId' = Null
    /\ snapshot' = listeners
    /\ atStart' = listeners
    /\ idx' = 1
    /\ invoked' = <<>>
    /\ threwNow' = FALSE
    /\ pc' = "calling"
    /\ pulses' = pulses + 1
    /\ selfStop' = FALSE
    /\ UNCHANGED <<listeners, closures, escaped, wentIdle, dropped, stopped>>
    /\ UNCHANGED <<chVars, viewVars, surfVars, actVars>>

\* the for-of over the live set instead of the copy
LiveTargets == listeners

\* what the for-of of loop iterates: the copy taken before the first call
LoopTargets == snapshot

\* the call without the try/catch
PropagatesUncaught(threw) == threw

\* try { fn(dt, accTime) } catch (err) {}: does a throw leave the for-of?
Propagates(threw) == FALSE

\* one turn of the for-of: fn(dt, accTime); fn returns or throws
Invoke ==
    /\ pc = "calling"
    /\ idx <= Len(LoopTargets)
    /\ \E threw \in BOOLEAN :
         /\ invoked' = Append(invoked, [fn |-> LoopTargets[idx], dt |-> dt,
                                        time |-> accTime])
         /\ threwNow' = (threwNow \/ threw)
         /\ IF Propagates(threw)
               THEN /\ pc' = "idle"
                    /\ escaped' = TRUE
                    /\ idx' = idx
               ELSE /\ idx' = idx + 1
                    /\ UNCHANGED <<pc, escaped>>
    /\ UNCHANGED <<listeners, rafId, lastTs, accTime, hostVars, snapshot, dt,
                   closures, atStart, pulses, sumDt, wentIdle, dropped, stopped,
                   selfStop>>
    /\ UNCHANGED <<chVars, viewVars, surfVars, actVars>>

\* the end of loop without the listeners.size test: always requests a frame
LoopEndAlwaysRequests ==
    /\ pc = "calling"
    /\ idx > Len(LoopTargets)
    /\ pc' = "idle"
    /\ rafId' = FreshId
    /\ pending' = Append(pending, FreshId)
    /\ lastTs' = IF Len(listeners) > 0 THEN lastTs ELSE Null
    /\ snapshot' = <<>>
    /\ idx' = 1
    /\ dt' = 0
    /\ invoked' = <<>>
    /\ atStart' = <<>>
    /\ wentIdle' = (Len(listeners) = 0)
    /\ dropped' = (dropped /\ atStart = <<>>)
    /\ stopped' = FALSE
    /\ UNCHANGED <<listeners, accTime, frameQ, now, closures, threwNow,
                   escaped, pulses, sumDt, selfStop>>
    /\ UNCHANGED <<chVars, viewVars, surfVars, actVars>>

\* the end of loop without the reset of the baseline
LoopEndKeepsBaseline ==
    /\ pc = "calling"
    /\ idx > Len(LoopTargets)
    /\ pc' = "idle"
    /\ IF Len(listeners) > 0
          THEN /\ rafId' = FreshId
               /\ pending' = Append(pending, FreshId)
          ELSE UNCHANGED <<rafId, pending>>
    /\ UNCHANGED lastTs
    /\ snapshot' = <<>>
    /\ idx' = 1
    /\ dt' = 0
    /\ invoked' = <<>>
    /\ atStart' = <<>>
    /\ wentIdle' = (Len(listeners) = 0)
    /\ dropped' = (dropped /\ atStart = <<>>)
    /\ stopped' = FALSE
    /\ UNCHANGED <<listeners, accTime, frameQ, now, closures, threwNow,
                   escaped, pulses, sumDt, selfStop>>
    /\ UNCHANGED <<chVars, viewVars, surfVars, actVars>>

\* loop after the for-of: request the next frame or reset the baseline
LoopEnd ==
    /\ pc = "calling"
    /\ idx > Len(LoopTargets)
    /\ pc' = "idle"
    /\ IF Len(listeners) > 0
          THEN /\ rafId' = FreshId
               /\ pending' = Append(pending, FreshId)
               /\ UNCHANGED lastTs
          ELSE /\ lastTs' = Null
               /\ UNCHANGED <<rafId, pending>>
    /\ snapshot' = <<>>
    /\ idx' = 1
    /\ dt' = 0
    /\ invoked' = <<>>
    /\ atStart' = <<>>
    /\ wentIdle' = (Len(listeners) = 0)
    /\ dropped' = (dropped /\ atStart = <<>>)
    /\ stopped' = FALSE
    /\ UNCHANGED <<listeners, accTime, frameQ, now, closures, threwNow,
                   escaped, pulses, sumDt, selfStop>>
    /\ UNCHANGED <<chVars, viewVars, surfVars, actVars>>

\* isTicking(): listeners.size > 0
isTicking == Len(listeners) > 0

\* --------------------------------------------------------------------- Next
Next ==
    \/ \E h \in Handlers : OnTick(h)
    \/ \E c \in 1..MaxRegs : Unsubscribe(c)
    \/ StopTicker
    \/ LoopBegin
    \/ Invoke
    \/ LoopEnd

Spec == Init /\ [][Next]_vars


\* =========================================================== ActionChannel
Undef == "<undefined>"          \* an option or argument left out
NameStrings == {"", "x"}        \* the strings given to cancel
ActionNames == {Undef, "x"}     \* the name options given to every and once
CancelArgs == NameStrings \cup {Undef}

\* a number argument of every and once is held as <<hi, lo>>, its value
\* being hi * Word + lo with lo in 0..Word-1, so that values beyond the
\* int32 range can be given
Word == 65536
Num(v) == <<v \div Word, v % Word>>

Intervals == {Num(0), Num(200)} \* interval arguments of every
\* the options given to every: none (catchUp defaults to true, immediate to
\* undefined), catchUp false, immediate true
DefaultOpts == [catchUp |-> TRUE, immediate |-> FALSE]
CatchUpOpts == {DefaultOpts, [catchUp |-> FALSE, immediate |-> FALSE]}
ImmediateOpts == {DefaultOpts, [catchUp |-> TRUE, immediate |-> TRUE]}
ImmediateOnly == {[catchUp |-> TRUE, immediate |-> TRUE]}
Delays == {Num(1000)}           \* delay arguments of once
TickDts == {400, 500}           \* dt arguments of step

Max(a, b) == IF a > b THEN a ELSE b

\* n | 0 on an integer n: ToInt32 keeps the low 32 bits, as a signed value
ToInt32(n) == (((n[1] + Word \div 2) % Word) - Word \div 2) * Word + n[2]

\* Math.max(0, n | 0)
NonNegInt(n) == Max(0, ToInt32(n))

\* an error the immediate call of every or a call of step throws does not
\* leave them
ChPropagatesUncaught(threw) == threw

\* try { fn() } catch {}
ChPropagates(threw) == FALSE

\* a caller of the channel exists: code outside step, or the a.fn() step has
\* called and that has not returned yet
CanCallCh == cpc = "idle" \/ (cpc = "step" /\ phase = "called")

\* every whose immediate call is made on a running channel only
EveryImmediateIfRunning(interval, name, catchUp, immediate, threw) ==
    /\ CanCallCh
    /\ Len(objs) < MaxObjs
    /\ objs' = Append(objs, [kind |-> "every", name |-> name, arg |-> interval,
                             period |-> NonNegInt(interval), elapsed |-> 0,
                             catchUp |-> catchUp, fired |-> 0,
                             imm |-> IF immediate /\ running THEN 1 ELSE 0,
                             got |-> 0, seen |-> 0,
                             born |-> IF cpc = "step" THEN ticks ELSE 0])
    /\ actions' = Append(actions, Len(objs) + 1)
    /\ chEscaped' = (chEscaped \/ (immediate /\ running /\ ChPropagates(threw)))
    /\ threwAt' = IF immediate /\ running /\ threw
                     THEN [id |-> Len(objs) + 1, tick |-> ticks, imm |-> TRUE]
                     ELSE threwAt
    /\ UNCHANGED <<unsub, running, subs, cpc, items, si, phase, fireLeft,
                   stepDt, ticks, eCredit, madeCalls, destroyedTo>>
    /\ UNCHANGED <<clockVars, viewVars, surfVars, actVars>>

\* every(interval, fn, {name, immediate, catchUp})
Every(interval, name, catchUp, immediate, threw) ==
    /\ CanCallCh
    /\ Len(objs) < MaxObjs
    /\ objs' = Append(objs, [kind |-> "every", name |-> name, arg |-> interval,
                             period |-> NonNegInt(interval), elapsed |-> 0,
                             catchUp |-> catchUp, fired |-> 0,
                             imm |-> IF immediate THEN 1 ELSE 0,
                             got |-> 0, seen |-> 0,
                             born |-> IF cpc = "step" THEN ticks ELSE 0])
    /\ actions' = Append(actions, Len(objs) + 1)
    /\ chEscaped' = (chEscaped \/ (immediate /\ ChPropagates(threw)))
    /\ threwAt' = IF immediate /\ threw
                     THEN [id |-> Len(objs) + 1, tick |-> ticks, imm |-> TRUE]
                     ELSE threwAt
    /\ UNCHANGED <<unsub, running, subs, cpc, items, si, phase, fireLeft,
                   stepDt, ticks, eCredit, madeCalls, destroyedTo>>
    /\ UNCHANGED <<clockVars, viewVars, surfVars, actVars>>

\* once(delay, fn, {name})
Once(delay, name) ==
    /\ CanCallCh
    /\ Len(objs) < MaxObjs
    /\ objs' = Append(objs, [kind |-> "once", name |-> name, arg |-> delay,
                             period |-> NonNegInt(delay), elapsed |-> 0,
                             catchUp |-> FALSE, fired |-> 0, imm |-> 0,
                             got |-> 0, seen |-> 0,
                             born |-> IF cpc = "step" THEN ticks ELSE 0])
    /\ actions' = Append(actions, Len(objs) + 1)
    /\ UNCHANGED <<unsub, running, subs, cpc, items, si, phase, fireLeft,
                   stepDt, ticks, eCredit, madeCalls, chObs>>
    /\ UNCHANGED <<clockVars, viewVars, surfVars, actVars>>

\* the closure tick = (dt) => this.step(dt) that start creates is a new
\* member of the Clock's listeners
FreshH == CHOOSE h \in 1..(Cardinality(subs) + 1) : h \notin subs

\* start without the test of this.running
StartAgain ==
    /\ CanCallCh
    /\ running' = TRUE
    /\ subs' = subs \cup {FreshH}
    /\ unsub' = FreshH
    /\ UNCHANGED <<actions, objs, cpc, items, si, phase, fireLeft, stepDt,
                   ticks, eCredit, madeCalls, chObs>>
    /\ UNCHANGED <<clockVars, viewVars, surfVars, actVars>>

\* start()
Start ==
    /\ CanCallCh
    /\ IF running
          THEN UNCHANGED <<running, subs, unsub>>
          ELSE /\ running' = TRUE
               /\ subs' = subs \cup {FreshH}
               /\ unsub' = FreshH
    /\ UNCHANGED <<actions, objs, cpc, items, si, phase, fireLeft, stepDt,
                   ticks, eCredit, madeCalls, chObs>>
    /\ UNCHANGED <<clockVars, viewVars, surfVars, actVars>>

\* this.unsub?.(): the closure deletes its handler from the listeners
Unsubscribed == IF unsub = Null THEN subs ELSE subs \ {unsub}

\* stop()
Stop ==
    /\ CanCallCh
    /\ IF ~running
          THEN UNCHANGED <<running, subs, unsub>>
          ELSE /\ running' = FALSE
               /\ subs' = Unsubscribed
               /\ unsub' = Null
    /\ UNCHANGED <<actions, objs, cpc, items, si, phase, fireLeft, stepDt,
                   ticks, eCredit, madeCalls, chObs>>
    /\ UNCHANGED <<clockVars, viewVars, surfVars, actVars>>

\* if (name): undefined and the empty string are falsy
Truthy(name) == name # Undef /\ name # ""

\* this.actions.filter(a => a.name !== name), or [] without a truthy name
Cancelled(acts, name) ==
    IF Truthy(name)
       THEN SelectSeq(acts, LAMBDA id : objs[id].name # name)
       ELSE <<>>

\* cancel(name?)
Cancel(name) ==
    /\ CanCallCh
    /\ actions' = Cancelled(actions, name)
    /\ UNCHANGED <<unsub, running, objs, subs, cpc, items, si, phase, fireLeft,
                   stepDt, ticks, eCredit, madeCalls, chObs>>
    /\ UNCHANGED <<clockVars, viewVars, surfVars, actVars>>

\* destroy(): this.stop(); this.actions = []
Destroy ==
    /\ CanCallCh
    /\ IF ~running
          THEN UNCHANGED <<running, subs, unsub>>
          ELSE /\ running' = FALSE
               /\ subs' = Unsubscribed
               /\ unsub' = Null
    /\ actions' = <<>>
    /\ destroyedTo' = IF cpc = "step" THEN Len(objs) ELSE destroyedTo
    /\ UNCHANGED <<objs, cpc, items, si, phase, fireLeft, stepDt, ticks,
                   eCredit, madeCalls, chEscaped, threwAt>>
    /\ UNCHANGED <<clockVars, viewVars, surfVars, actVars>>

\* isRunning()
isRunning == running

\* ------------------------------------------------------------------- step
\* step(dt) up to the for-of
StepBegin(d) ==
    /\ cpc = "idle"
    /\ ticks < MaxTicks
    /\ IF ~running \/ Len(actions) = 0
          THEN UNCHANGED <<cpc, items, si, phase, stepDt, ticks>>
          ELSE /\ cpc' = "step"
               /\ ticks' = ticks + 1
               /\ items' = actions
               /\ si' = 1
               /\ phase' = "advance"
               /\ stepDt' = d
    /\ UNCHANGED <<actions, unsub, running, objs, subs, fireLeft, eCredit,
                   madeCalls, chObs>>
    /\ UNCHANGED <<clockVars, viewVars, surfVars, actVars>>

\* the for-of going on to the actions scheduled after the copy was taken
ItemsAndLater == items \o SelectSeq(actions, LAMBDA id : id \notin Range(items))

\* what the for-of of step iterates: the copy taken before the first item
StepTargets == items

\* an interval of 0 taken as never due
DueCountNoZero(o, e) ==
    IF o.kind = "every"
       THEN IF o.period <= 0 THEN 0
            ELSE IF e >= o.period
                    THEN (IF o.catchUp THEN e \div o.period ELSE 1)
                    ELSE 0
       ELSE IF e >= o.period THEN 1 ELSE 0

\* catch-up that fires once however late the action is
DueCountOnce(o, e) ==
    IF o.kind = "every"
       THEN IF o.period <= 0 THEN 1
            ELSE IF e >= o.period THEN 1 ELSE 0
       ELSE IF e >= o.period THEN 1 ELSE 0

\* the calls of a.fn() step makes for a, a.elapsed being e after += dt
DueCount(o, e) ==
    IF o.kind = "every"
       THEN IF o.period <= 0 THEN 1
            ELSE IF e >= o.period
                    THEN (IF o.catchUp THEN e \div o.period ELSE 1)
                    ELSE 0
       ELSE IF e >= o.period THEN 1 ELSE 0

\* without catch-up the late time is dropped
LeftoverDropsLate(o, e) ==
    IF o.kind = "every" /\ o.period > 0 /\ e >= o.period
       THEN (IF o.catchUp THEN e - (e \div o.period) * o.period ELSE 0)
       ELSE e

\* one interval taken from the elapsed time however many calls are made
LeftoverTakesOne(o, e) ==
    IF o.kind = "every" /\ o.period > 0 /\ e >= o.period
       THEN e - o.period
       ELSE e

\* a.elapsed after step has dealt with a, a.elapsed being e after += dt
Leftover(o, e) ==
    IF o.kind = "every" /\ o.period > 0 /\ e >= o.period
       THEN (IF o.catchUp THEN e - (e \div o.period) * o.period
                          ELSE e - o.period)
       ELSE e

\* a fired once-action left in the array
AfterOnceKept(acts, id) == acts

\* idx = this.actions.indexOf(a); if (idx >= 0) this.actions.splice(idx, 1)
AfterOnce(acts, id) == SelectSeq(acts, LAMBDA x : x # id)

\* the for-of moves to the next item, or step returns
MoveOn ==
    /\ fireLeft' = 0
    /\ IF si + 1 > Len(StepTargets)
          THEN /\ cpc' = "idle"
               /\ items' = <<>>
               /\ si' = 1
               /\ stepDt' = 0
               /\ eCredit' = 0
               /\ madeCalls' = 0
               /\ destroyedTo' = 0
          ELSE /\ si' = si + 1
               /\ UNCHANGED <<cpc, items, stepDt, eCredit, madeCalls,
                              destroyedTo>>
    /\ phase' = "advance"

\* one item of the for-of, up to its first a.fn()
StepAdvance ==
    /\ cpc = "step"
    /\ phase = "advance"
    /\ si <= Len(StepTargets)
    /\ LET id == StepTargets[si]
           o  == objs[id]
           e  == o.elapsed + stepDt
           n  == DueCount(o, e)
       IN  /\ objs' = [objs EXCEPT ![id] =
                         [o EXCEPT !.elapsed = Leftover(o, e),
                                   !.got = @ + stepDt,
                                   !.seen = @ + 1,
                                   !.fired = @ + (IF n > 0 THEN 1 ELSE 0)]]
           /\ IF n = 0
                 THEN MoveOn
                 ELSE /\ phase' = "called"
                      /\ fireLeft' = n - 1
                      /\ eCredit' = e
                      /\ madeCalls' = 1
                      /\ UNCHANGED <<cpc, items, si, stepDt, destroyedTo>>
    /\ UNCHANGED <<actions, unsub, running, subs, ticks, chEscaped, threwAt>>
    /\ UNCHANGED <<clockVars, viewVars, surfVars, actVars>>

\* step is left by an error: nothing more of it runs
StepAborted ==
    /\ cpc' = "idle"
    /\ items' = <<>>
    /\ si' = 1
    /\ phase' = "advance"
    /\ fireLeft' = 0
    /\ stepDt' = 0
    /\ eCredit' = 0
    /\ madeCalls' = 0
    /\ destroyedTo' = 0
    /\ UNCHANGED <<actions, objs>>

\* a.fn() returns, or throws into the empty catch: the next call of the
\* catch-up loop, or the end of the item
StepReturn(threw) ==
    /\ cpc = "step"
    /\ phase = "called"
    /\ LET id == StepTargets[si]
           o  == objs[id]
       IN  /\ threwAt' = IF threw
                            THEN [id |-> id, tick |-> ticks, imm |-> FALSE]
                            ELSE threwAt
           /\ chEscaped' = (chEscaped \/ ChPropagates(threw))
           /\ IF ChPropagates(threw)
                 THEN StepAborted
                 ELSE IF fireLeft > 0
                         THEN /\ objs' = [objs EXCEPT ![id].fired = @ + 1]
                              /\ fireLeft' = fireLeft - 1
                              /\ madeCalls' = madeCalls + 1
                              /\ UNCHANGED <<actions, cpc, items, si, phase,
                                             stepDt, eCredit, destroyedTo>>
                         ELSE /\ actions' = IF o.kind = "once"
                                               THEN AfterOnce(actions, id)
                                               ELSE actions
                              /\ MoveOn
                              /\ UNCHANGED objs
    /\ UNCHANGED <<unsub, running, subs, ticks>>
    /\ UNCHANGED <<clockVars, viewVars, surfVars, actVars>>

\* the calls made on a channel with intervals I, delays D, names N and
\* options O, and the steps of its tick handler, the callbacks throwing or
\* not as T says
ChannelOps(I, D, N, O, T) ==
    \/ \E i \in I, n \in N, o \in O :
          \E t \in (IF o.immediate THEN T ELSE {FALSE}) :
             Every(i, n, o.catchUp, o.immediate, t)
    \/ \E d \in D, n \in N : Once(d, n)
    \/ Start
    \/ Stop
    \/ \E n \in CancelArgs : Cancel(n)
    \/ Destroy
    \/ \E d \in TickDts : StepBegin(d)
    \/ StepAdvance
    \/ \E t \in T : StepReturn(t)

\* a channel of unnamed actions with and without catch-up
ChNext == ChannelOps(Intervals, Delays, {Undef}, CatchUpOpts, {FALSE})

SpecCh == Init /\ [][ChNext]_vars

\* a channel of named and unnamed actions of one interval
NamedNext == ChannelOps({Num(200)}, Delays, ActionNames, ImmediateOpts, {FALSE})

SpecNamed == Init /\ [][NamedNext]_vars

\* a channel of one interval whose periodic actions are registered with
\* immediate and whose callbacks may throw
ThrowNext == ChannelOps({Num(200)}, Delays, {Undef}, ImmediateOnly, BOOLEAN)

SpecThrow == Init /\ [][ThrowNext]_vars

\* interval and delay arguments inside and outside the int32 range:
\* 200, 3000000000, -100 and 2^32 + 1000
WideIntervals == {Num(200), <<45776, 24064>>, Num(-100)}
WideDelays == {<<Word, 1000>>}

\* a channel given numbers of any size
WideNext == ChannelOps(WideIntervals, WideDelays, {Undef}, {DefaultOpts}, {FALSE})

SpecWide == Init /\ [][WideNext]_vars

\* ================================================================ viewports
\* lengths are whole pixels; the frame, base and padding sizes given are
\* such that every size halved below is even
NoSize == <<0, 0>>               \* baseSize left undefined
NoCall == [anchor |-> "no call", x |-> 0, y |-> 0, sw |-> 0, sh |-> 0,
           scale |-> 0]
NoView == [anchor |-> "undefined", x |-> 0, y |-> 0, sw |-> 0, sh |-> 0,
           scale |-> 0]

\* the views given to updateFollow: anchor, position of the actor, size of
\* its current frame, scale
Anchors == {"center", "topleft"}
Positions == {<<100, 100>>, <<110, 105>>, <<125, 100>>, <<50, 50>>}
Scales == {1, 2}
Views == {[anchor |-> a, x |-> p[1], y |-> p[2], sw |-> 20, sh |-> 10,
           scale |-> k] : a \in Anchors, p \in Positions, k \in Scales}

\* the options given to new CameraViewport
FollowModes == {"center", "deadzone", "none"}
Deadzones == {<<20, 20>>, <<0, 0>>}
Paddings == {<<0, 0>>, <<4, 4>>}
BaseSizes == {NoSize, <<200, 200>>}

\* baseSize being a function: the one createViewportFor makes for the mode
\* 'parent'
DynamicSize == <<-1, -1>>
ClientBoxes == {<<0, 0>>, <<400, 200>>, <<0, 100>>}

\* const baseSize = () => [parent.clientWidth || 300,
\*                         parent.clientHeight || 150]
ParentBaseSize ==
    <<IF clientBox[1] = 0 THEN 300 ELSE clientBox[1],
      IF clientBox[2] = 0 THEN 150 ELSE clientBox[2]>>

\* v / 2
Half(v) == v \div 2

\* w = sw * view.scale, h = sh * view.scale
RenderedW(view) == view.sw * view.scale
RenderedH(view) == view.sh * view.scale

\* the sprite's centre in the world, by anchor
CenterX(view) ==
    IF view.anchor = "center" THEN view.x ELSE view.x + Half(RenderedW(view))
CenterY(view) ==
    IF view.anchor = "center" THEN view.y ELSE view.y + Half(RenderedH(view))

\* a size that is derived from the view whenever there is one
CameraLogicalSizeViewFirst(view) ==
    IF view # NoView
       THEN <<RenderedW(view) + padding[1] * 2,
              RenderedH(view) + padding[2] * 2>>
    ELSE IF baseSize = DynamicSize THEN ParentBaseSize
    ELSE IF baseSize # NoSize THEN baseSize
    ELSE <<64, 64>>

\* CameraViewport.getLogicalSize(view)
CameraLogicalSize(view) ==
    IF baseSize = DynamicSize THEN ParentBaseSize
    ELSE IF baseSize # NoSize THEN baseSize
    ELSE IF view = NoView THEN <<64, 64>>
    ELSE <<RenderedW(view) + padding[1] * 2, RenderedH(view) + padding[2] * 2>>

\* CageViewport.getLogicalSize(view)
CageLogicalSize(view) ==
    IF view = NoView THEN <<64, 64>>
    ELSE <<RenderedW(view), RenderedH(view)>>

\* updateFollow without a view keeping the offset
OffsetKept(cx, cy) == <<cx, cy>>

\* if (!view) { this.camX = 0; this.camY = 0; return }
OffsetWithoutView(cx, cy) == <<0, 0>>

\* the centre of the sprite taken as the offset
CenterOffsetNoHalf(c, size) == c

\* follow 'center': centerX - vw / 2
CenterOffset(c, size) == c - Half(size)

\* a shift that puts the sprite's centre at the centre of the viewport
DeadzoneShiftRecentre(c, vc, dz) ==
    IF c < vc - dz \/ c > vc + dz THEN c - vc ELSE 0

\* the viewport moved only when the centre leaves to the right or below
DeadzoneShiftForwardOnly(c, vc, dz) ==
    IF c > vc + dz THEN c - (vc + dz) ELSE 0

\* a shift by half of what the centre is beyond the edge
DeadzoneShiftHalfway(c, vc, dz) ==
    (IF c < vc - dz THEN 0 - (((vc - dz) - c) \div 2) ELSE 0)
    + (IF c > vc + dz THEN (c - (vc + dz)) \div 2 ELSE 0)

\* follow 'deadzone', one axis: what the two tests add to the origin, c
\* being the sprite's centre, vc the viewport's, dz the half-size
DeadzoneShift(c, vc, dz) ==
    (IF c < vc - dz THEN 0 - ((vc - dz) - c) ELSE 0)
    + (IF c > vc + dz THEN c - (vc + dz) ELSE 0)

\* new CameraViewport(opts)
CameraMade(f, dz, pad, base) ==
    /\ vpKind' = "camera"
    /\ follow' = f
    /\ deadzone' = dz
    /\ padding' = pad
    /\ baseSize' = base
    /\ camX' = 0
    /\ camY' = 0
    /\ lastView' = NoCall
    /\ prevCam' = <<0, 0>>
    /\ sizeArg' = NoCall
    /\ sizeRet' = <<0, 0>>
    /\ UNCHANGED clientBox

\* new CameraViewport(opts); nothing outside the viewport changes
NewCamera(f, dz, pad, base) ==
    /\ CameraMade(f, dz, pad, base)
    /\ UNCHANGED <<clockVars, chVars, surfVars, actVars>>

\* new CageViewport()
CageMade ==
    /\ vpKind' = "cage"
    /\ camX' = 0
    /\ camY' = 0
    /\ lastView' = NoCall
    /\ prevCam' = <<0, 0>>
    /\ sizeArg' = NoCall
    /\ sizeRet' = <<0, 0>>
    /\ UNCHANGED <<follow, deadzone, padding, baseSize, clientBox>>

\* new CageViewport(); nothing outside the viewport changes
NewCage ==
    /\ CageMade
    /\ UNCHANGED <<clockVars, chVars, surfVars, actVars>>

\* CameraViewport.updateFollow(view?)
CameraFollowed(view) ==
    /\ vpKind = "camera"
    /\ lastView' = view
    /\ prevCam' = <<camX, camY>>
    /\ IF view = NoView
          THEN /\ camX' = OffsetWithoutView(camX, camY)[1]
               /\ camY' = OffsetWithoutView(camX, camY)[2]
          ELSE LET size == CameraLogicalSize(view)
               IN  CASE follow = "none" -> UNCHANGED <<camX, camY>>
                     [] follow = "center" ->
                          /\ camX' = CenterOffset(CenterX(view), size[1])
                          /\ camY' = CenterOffset(CenterY(view), size[2])
                     [] follow = "deadzone" ->
                          /\ camX' = camX + DeadzoneShift(CenterX(view),
                                          camX + Half(size[1]), deadzone[1])
                          /\ camY' = camY + DeadzoneShift(CenterY(view),
                                          camY + Half(size[2]), deadzone[2])
    /\ UNCHANGED <<vpKind, follow, deadzone, padding, baseSize, sizeVars>>

\* CameraViewport.updateFollow(view); nothing outside the viewport changes
CameraUpdateFollow(view) ==
    /\ CameraFollowed(view)
    /\ UNCHANGED <<clockVars, chVars, surfVars, actVars>>

\* the cage put at the actor's position whatever the anchor
CageTopLeftIgnoresAnchor(view) == <<view.x, view.y>>

\* topLeftX, topLeftY of CageViewport.updateFollow
CageTopLeft(view) ==
    IF view.anchor = "center"
       THEN <<view.x - Half(RenderedW(view)), view.y - Half(RenderedH(view))>>
       ELSE <<view.x, view.y>>

\* CageViewport.updateFollow(view?)
CageFollowed(view) ==
    /\ vpKind = "cage"
    /\ lastView' = view
    /\ prevCam' = <<camX, camY>>
    /\ IF view = NoView
          THEN camX' = 0 /\ camY' = 0
          ELSE camX' = CageTopLeft(view)[1] /\ camY' = CageTopLeft(view)[2]
    /\ UNCHANGED <<vpKind, follow, deadzone, padding, baseSize, sizeVars>>

\* CageViewport.updateFollow(view); nothing outside the viewport changes
CageUpdateFollow(view) ==
    /\ CageFollowed(view)
    /\ UNCHANGED <<clockVars, chVars, surfVars, actVars>>

\* getWorldOffset()
getWorldOffset == <<camX, camY>>

ViewNext ==
    \/ \E f \in FollowModes, dz \in Deadzones, pad \in Paddings,
          base \in BaseSizes : NewCamera(f, dz, pad, base)
    \/ NewCage
    \/ \E v \in Views \cup {NoView} : CameraUpdateFollow(v)
    \/ \E v \in Views \cup {NoView} : CageUpdateFollow(v)

SpecView == Init /\ [][ViewNext]_vars

\* the parent of the canvas is laid out anew
ResizeParent(box) ==
    /\ clientBox' = box
    /\ UNCHANGED <<vpKind, follow, deadzone, padding, baseSize, camX, camY,
                   lastView, prevCam, sizeArg, sizeRet>>
    /\ UNCHANGED <<clockVars, chVars, surfVars, actVars>>

\* CameraViewport.getLogicalSize(view?) called on the viewport
CameraGetLogicalSize(view) ==
    /\ vpKind = "camera"
    /\ sizeArg' = view
    /\ sizeRet' = CameraLogicalSize(view)
    /\ UNCHANGED <<vpKind, follow, deadzone, padding, baseSize, camX, camY,
                   lastView, prevCam, clientBox>>
    /\ UNCHANGED <<clockVars, chVars, surfVars, actVars>>

\* CageViewport.getLogicalSize(view?) called on the viewport
CageGetLogicalSize(view) ==
    /\ vpKind = "cage"
    /\ sizeArg' = view
    /\ sizeRet' = CageLogicalSize(view)
    /\ UNCHANGED <<vpKind, follow, deadzone, padding, baseSize, camX, camY,
                   lastView, prevCam, clientBox>>
    /\ UNCHANGED <<clockVars, chVars, surfVars, actVars>>

\* viewports of every configuration, asked for their size
SizeNext ==
    \/ \E f \in FollowModes, dz \in Deadzones, pad \in Paddings,
          base \in BaseSizes \cup {DynamicSize} : NewCamera(f, dz, pad, base)
    \/ NewCage
    \/ \E box \in ClientBoxes : ResizeParent(box)
    \/ \E v \in Views \cup {NoView} : CameraGetLogicalSize(v)
    \/ \E v \in Views \cup {NoView} : CageGetLogicalSize(v)

SpecSize == Init /\ [][SizeNext]_vars


\* ================================================================== surface
MaxAdds == 2            \* calls of add on the surface in one behaviour
MaxPlays == 2           \* subscriptions play makes after createSurface
MaxSurfPulses == 2      \* pulses the Clock delivers to the surface's set

\* the views given to add: z, and the geometry of the actor's frame
Zs == {0, 1}
SurfViews == {[anchor |-> "topleft", x |-> 100, y |-> 100, sw |-> 20,
               sh |-> 10, scale |-> 1],
              [anchor |-> "center", x |-> 50, y |-> 50, sw |-> 20,
               sh |-> 10, scale |-> 2]}

\* the viewport createViewportFor makes with no option beyond the mode and
\* the strategy: 'actor' with the cage, 'actor' with the camera, 'fixed'
SurfaceKinds == {"cage", "camera", "fixed"}

\* two entities, the one given last to be drawn first
Entities == {[z |-> 1, view |-> [anchor |-> "topleft", x |-> 100, y |-> 100,
                                 sw |-> 20, sh |-> 10, scale |-> 1]],
             [z |-> 0, view |-> [anchor |-> "center", x |-> 50, y |-> 50,
                                 sw |-> 20, sh |-> 10, scale |-> 2]]}

\* the ViewModel the surface passes to the viewport for follow
FollowView == IF sFollow = 0 THEN NoView ELSE created[sFollow].view

\* the innermost call in progress
Top == stack[Len(stack)]
Pop == SubSeq(stack, 1, Len(stack) - 1)

\* a caller of the surface's API exists: host code, the callback of another
\* Clock subscriber, or a listener of the 'resize' event
CanCallSurface ==
    /\ sMade
    /\ IF stack = <<>> THEN TRUE ELSE Top \in {"other", "frame", "play"}

\* viewport.getLogicalSize(follow)
LogicalSize ==
    IF vpKind = "cage" THEN CageLogicalSize(FollowView)
    ELSE CameraLogicalSize(FollowView)

\* one call on the viewport or the renderer
Call(op, a, b) == [op |-> op, a |-> a, b |-> b]

\* resize(): renderer.setLogicalSize(viewport.getLogicalSize(follow))
ResizeCalls == <<Call("setLogicalSize", LogicalSize[1], LogicalSize[2])>>

\* layout(): if (viewport.placeCanvas) viewport.placeCanvas(canvas, follow)
LayoutCalls ==
    IF vpKind = "cage" THEN <<Call("placeCanvas", sFollow, 0)>> ELSE <<>>

\* the array left as it is
SortByZUnsorted(ids) == ids

\* views.sort((a, b) => a.z - b.z): ascending z, equal z in array order
RECURSIVE SortByZ(_)
SortByZ(ids) ==
    IF ids = <<>> THEN <<>>
    ELSE LET low == CHOOSE z \in {created[i].z : i \in Range(ids)} :
                       \A i \in Range(ids) : z <= created[i].z
         IN  SelectSeq(ids, LAMBDA i : created[i].z = low)
             \o SortByZ(SelectSeq(ids, LAMBDA i : created[i].z # low))

\* renderer.begin(viewport.getWorldOffset())
BeginOffset == getWorldOffset

\* createSurface(options): the viewport, no view, nothing followed, play()
\* (no listener can be registered yet)
CreateSurface(kind) ==
    /\ ~sMade
    /\ sMade' = TRUE
    /\ CASE kind = "cage" -> CageMade
         [] kind = "camera" -> CameraMade("center", <<0, 0>>, <<0, 0>>, NoSize)
         [] kind = "fixed" -> CameraMade("none", <<0, 0>>, <<0, 0>>,
                                         <<300, 150>>)
    /\ hMade' = 1
    /\ unsubTick' = 1
    /\ tickSubs' = Append(tickSubs, 1)
    /\ UNCHANGED <<created, sViews, sFollow, stack, sSnap, sIdx, rlog, sPulses,
                   sincePause, framesNow>>
    /\ UNCHANGED <<clockVars, chVars, actVars>>

\* onTick(handler) by a subscriber that is not the surface
SubscribeOther ==
    /\ stack = <<>>
    /\ 0 \notin Range(tickSubs)
    /\ tickSubs' = Append(tickSubs, 0)
    /\ UNCHANGED <<sMade, created, sViews, sFollow, unsubTick, hMade, stack,
                   sSnap, sIdx, rlog, sPulses, sincePause, framesNow>>
    /\ UNCHANGED <<clockVars, chVars, viewVars, actVars>>

\* add(params): views.add, follow it when nothing is followed, resize, layout
Add(z, view) ==
    /\ CanCallSurface
    /\ Len(created) < MaxAdds
    /\ created' = Append(created, [z |-> z, view |-> view])
    /\ sViews' = Append(sViews, Len(created) + 1)
    /\ sFollow' = IF sFollow = 0 THEN Len(created) + 1 ELSE sFollow
    /\ UNCHANGED <<sMade, unsubTick, tickSubs, hMade, stack, sSnap, sIdx, rlog,
                   sPulses, sincePause, framesNow>>
    /\ UNCHANGED <<clockVars, chVars, viewVars, actVars>>

\* follow = views.list()[0]
FollowAfterRemove(rest) == IF rest = <<>> THEN 0 ELSE rest[1]

\* remove(view)
Remove(id) ==
    /\ CanCallSurface
    /\ id \in 1..Len(created)
    /\ LET removed == id \in Range(sViews)
           rest == SelectSeq(sViews, LAMBDA i : i # id)
       IN  /\ sViews' = rest
           /\ sFollow' = IF removed /\ sFollow # 0 /\ sFollow = id
                            THEN FollowAfterRemove(rest)
                            ELSE sFollow
    /\ UNCHANGED <<sMade, created, unsubTick, tickSubs, hMade, stack, sSnap,
                   sIdx, rlog, sPulses, sincePause, framesNow>>
    /\ UNCHANGED <<clockVars, chVars, viewVars, actVars>>

\* setFollow(view?): any view the caller holds, or none
SetFollow(id) ==
    /\ CanCallSurface
    /\ id \in 0..Len(created)
    /\ sFollow' = id
    /\ UNCHANGED <<sMade, created, sViews, unsubTick, tickSubs, hMade, stack,
                   sSnap, sIdx, rlog, sPulses, sincePause, framesNow>>
    /\ UNCHANGED <<clockVars, chVars, viewVars, actVars>>

\* what pause leaves of the Clock's set
TickUnsubscribed(subsNow) ==
    IF unsubTick = 0 THEN subsNow
    ELSE SelectSeq(subsNow, LAMBDA h : h # unsubTick)

\* pause(): if (!unsubTick) return; unsubTick(); unsubTick = null
Pause ==
    /\ CanCallSurface
    /\ tickSubs' = TickUnsubscribed(tickSubs)
    /\ unsubTick' = 0
    /\ sincePause' = "quiet"
    /\ UNCHANGED <<sMade, created, sViews, sFollow, hMade, stack, sSnap, sIdx,
                   rlog, sPulses, framesNow>>
    /\ UNCHANGED <<clockVars, chVars, viewVars, actVars>>

\* destroy(): pause(); views.clearKeepIds()
DestroySurface ==
    /\ CanCallSurface
    /\ tickSubs' = TickUnsubscribed(tickSubs)
    /\ unsubTick' = 0
    /\ sincePause' = "quiet"
    /\ sViews' = <<>>
    /\ UNCHANGED <<sMade, created, sFollow, hMade, stack, sSnap, sIdx, rlog,
                   sPulses, framesNow>>
    /\ UNCHANGED <<clockVars, chVars, viewVars, actVars>>

\* play() up to the 'resize' event of its resize(): if (unsubTick) return
PlayBegin ==
    /\ CanCallSurface
    /\ hMade + Cardinality({i \in 1..Len(stack) : stack[i] = "play"})
          <= MaxPlays
    /\ sincePause' = "none"
    /\ stack' = IF unsubTick # 0 THEN stack ELSE Append(stack, "play")
    /\ UNCHANGED <<sMade, created, sViews, sFollow, unsubTick, tickSubs, hMade,
                   sSnap, sIdx, rlog, sPulses, framesNow>>
    /\ UNCHANGED <<clockVars, chVars, viewVars, actVars>>

\* play() after the listeners of 'resize' have returned: layout(),
\* unsubTick = onTick((dt) => frame(dt))
PlayRest ==
    /\ stack # <<>>
    /\ Top = "play"
    /\ stack' = Pop
    /\ hMade' = hMade + 1
    /\ tickSubs' = Append(tickSubs, hMade + 1)
    /\ unsubTick' = hMade + 1
    /\ UNCHANGED <<sMade, created, sViews, sFollow, sSnap, sIdx, rlog, sPulses,
                   sincePause, framesNow>>
    /\ UNCHANGED <<clockVars, chVars, viewVars, actVars>>

\* loop(ts) of the Clock up to its for-of: snapshot = Array.from(listeners)
PulseBegin ==
    /\ sMade
    /\ stack = <<>>
    /\ tickSubs # <<>>
    /\ sPulses < MaxSurfPulses
    /\ sPulses' = sPulses + 1
    /\ sSnap' = tickSubs
    /\ sIdx' = 1
    /\ stack' = <<"pulse">>
    /\ framesNow' = 0
    /\ UNCHANGED <<sMade, created, sViews, sFollow, unsubTick, tickSubs, hMade,
                   rlog, sincePause>>
    /\ UNCHANGED <<clockVars, chVars, viewVars, actVars>>

\* one turn of the for-of: the callback of the other subscriber is called
InvokeOther ==
    /\ stack # <<>>
    /\ Top = "pulse"
    /\ sIdx <= Len(sSnap)
    /\ sSnap[sIdx] = 0
    /\ stack' = Append(stack, "other")
    /\ UNCHANGED <<sMade, created, sViews, sFollow, unsubTick, tickSubs, hMade,
                   sSnap, sIdx, rlog, sPulses, sincePause, framesNow>>
    /\ UNCHANGED <<clockVars, chVars, viewVars, actVars>>

\* it returns
OtherReturn ==
    /\ stack # <<>>
    /\ Top = "other"
    /\ stack' = Pop
    /\ sIdx' = sIdx + 1
    /\ UNCHANGED <<sMade, created, sViews, sFollow, unsubTick, tickSubs, hMade,
                   sSnap, rlog, sPulses, sincePause, framesNow>>
    /\ UNCHANGED <<clockVars, chVars, viewVars, actVars>>

\* one turn of the for-of: frame(dt) up to the 'resize' event of its
\* resize(): viewport.updateFollow(follow), renderer.setLogicalSize
FrameBegin ==
    /\ stack # <<>>
    /\ Top = "pulse"
    /\ sIdx <= Len(sSnap)
    /\ sSnap[sIdx] # 0
    /\ IF vpKind = "cage" THEN CageFollowed(FollowView)
                          ELSE CameraFollowed(FollowView)
    /\ rlog' = <<Call("updateFollow", sFollow, 0)>> \o ResizeCalls
    /\ stack' = Append(stack, "frame")
    /\ framesNow' = framesNow + 1
    /\ sincePause' = IF sincePause = "none" THEN "none" ELSE "rendered"
    /\ UNCHANGED <<sMade, created, sViews, sFollow, unsubTick, tickSubs, hMade,
                   sSnap, sIdx, sPulses>>
    /\ UNCHANGED <<clockVars, chVars, actVars>>

\* frame(dt) after the listeners of 'resize' have returned: layout(), clear,
\* begin, views.sortByZ().forEach(draw), end
FrameRest ==
    /\ stack # <<>>
    /\ Top = "frame"
    /\ sViews' = SortByZ(sViews)
    /\ rlog' = rlog \o LayoutCalls
                    \o <<Call("clear", 0, 0),
                         Call("begin", BeginOffset[1], BeginOffset[2])>>
                    \o [i \in 1..Len(sViews) |->
                          Call("draw", SortByZ(sViews)[i], 0)]
                    \o <<Call("end", 0, 0)>>
    /\ stack' = Pop
    /\ sIdx' = sIdx + 1
    /\ sincePause' = IF sincePause = "none" THEN "none" ELSE "rendered"
    /\ UNCHANGED <<sMade, created, sFollow, unsubTick, tickSubs, hMade, sSnap,
                   sPulses, framesNow>>
    /\ UNCHANGED <<clockVars, chVars, viewVars, actVars>>

\* loop(ts) after its for-of
PulseEnd ==
    /\ stack # <<>>
    /\ Top = "pulse"
    /\ sIdx > Len(sSnap)
    /\ stack' = <<>>
    /\ sSnap' = <<>>
    /\ sIdx' = 1
    /\ UNCHANGED <<sMade, created, sViews, sFollow, unsubTick, tickSubs, hMade,
                   rlog, sPulses, sincePause, framesNow>>
    /\ UNCHANGED <<clockVars, chVars, viewVars, actVars>>

\* a surface that is played, paused and destroyed, under a Clock with
\* another subscriber
SurfNext ==
    \/ \E kind \in SurfaceKinds : CreateSurface(kind)
    \/ SubscribeOther
    \/ \E e \in Entities : Add(e.z, e.view)
    \/ Pause
    \/ DestroySurface
    \/ PlayBegin
    \/ PlayRest
    \/ PulseBegin
    \/ InvokeOther
    \/ OtherReturn
    \/ FrameBegin
    \/ FrameRest
    \/ PulseEnd

SpecSurf == Init /\ [][SurfNext]_vars

\* a playing surface whose views come, go and are followed, between the
\* pulses and from the listeners of 'resize'
FrameNext ==
    \/ \E kind \in SurfaceKinds : CreateSurface(kind)
    \/ \E e \in Entities : Add(e.z, e.view)
    \/ \E id \in 1..MaxAdds : Remove(id)
    \/ \E id \in 0..MaxAdds : SetFollow(id)
    \/ PulseBegin
    \/ FrameBegin
    \/ FrameRest
    \/ PulseEnd

SpecFrame == Init /\ [][FrameNext]_vars

\* the views and the follow of a surface, with no pulse
FollowNext ==
    \/ \E kind \in SurfaceKinds : CreateSurface(kind)
    \/ \E z \in Zs, view \in SurfViews : Add(z, view)
    \/ \E id \in 1..MaxAdds : Remove(id)
    \/ \E id \in 0..MaxAdds : SetFollow(id)
    \/ Pause
    \/ PlayBegin
    \/ PlayRest
    \/ DestroySurface

SpecFollow == Init /\ [][FollowNext]_vars


\* ==================================================================== actor
MaxLoops == 2           \* state.loops up to which nextFrame is followed
MaxActorTicks == 2      \* pulses the Clock delivers to the actor's channels

ChanNames == {"a", "b"}         \* names given to channel
SheetFrames == {0, 2, 3, 4}     \* sheet.frames given to createActor, setSheet
FrameIndexes == {-1, 0, 2, 5}   \* indexes given to setFrame
ActorDt == 16                   \* dt of a pulse

\* totalFrames(meta): Math.max(1, meta.frames | 0)
TotalFrames(n) == Max(1, n)

\* a % n of JavaScript for n > 0: the sign of a
JsRem(a, n) == IF a >= 0 THEN a % n ELSE 0 - ((0 - a) % n)

\* ((index % total) + total) % total
Wrap(index, total) == (JsRem(index, total) + total) % total

\* the position of the channel of a name in the Map, 0 when it has none
ChanAt(name) ==
    IF \E i \in 1..Len(chans) : chans[i].name = name
       THEN CHOOSE i \in 1..Len(chans) : chans[i].name = name
       ELSE 0

\* for (const ch of channels.values()) ch.stop(), or ch.start()
AllChannels(run) == [i \in 1..Len(chans) |-> [chans[i] EXCEPT !.running = run]]

\* createActor(initial): frame 0, playing, no channel
CreateActor(frames) ==
    /\ ~aMade
    /\ aMade' = TRUE
    /\ aFrames' = frames
    /\ aFrame' = 0
    /\ aLoops' = 0
    /\ aPlaying' = TRUE
    /\ aOp' = "create"
    /\ UNCHANGED <<chans, aRet, aTicks>>
    /\ UNCHANGED <<clockVars, chVars, viewVars, surfVars>>

\* setSheet(next): Object.assign(sheet, next)
SetSheet(frames) ==
    /\ aMade
    /\ aFrames' = frames
    /\ aOp' = "setSheet"
    /\ UNCHANGED <<aMade, aFrame, aLoops, aPlaying, chans, aRet, aTicks>>
    /\ UNCHANGED <<clockVars, chVars, viewVars, surfVars>>

\* setFrame(index)
SetFrame(index) ==
    /\ aMade
    /\ aFrame' = Wrap(index, TotalFrames(aFrames))
    /\ aOp' = "setFrame"
    /\ UNCHANGED <<aMade, aFrames, aLoops, aPlaying, chans, aRet, aTicks>>
    /\ UNCHANGED <<clockVars, chVars, viewVars, surfVars>>

\* nextFrame(): setFrame(state.frame + 1); if (state.frame === 0) loops += 1
NextFrame ==
    /\ aMade
    /\ aLoops < MaxLoops
    /\ aFrame' = Wrap(aFrame + 1, TotalFrames(aFrames))
    /\ aLoops' = IF aFrame' = 0 THEN aLoops + 1 ELSE aLoops
    /\ aOp' = "nextFrame"
    /\ UNCHANGED <<aMade, aFrames, aPlaying, chans, aRet, aTicks>>
    /\ UNCHANGED <<clockVars, chVars, viewVars, surfVars>>

\* prevFrame(): setFrame(state.frame - 1)
PrevFrame ==
    /\ aMade
    /\ aFrame' = Wrap(aFrame - 1, TotalFrames(aFrames))
    /\ aOp' = "prevFrame"
    /\ UNCHANGED <<aMade, aFrames, aLoops, aPlaying, chans, aRet, aTicks>>
    /\ UNCHANGED <<clockVars, chVars, viewVars, surfVars>>

\* channel(name): getOrCreateChannel(name), started when the actor is
\* playing and it is not running
Channel(name) ==
    /\ aMade
    /\ LET had == ChanAt(name) # 0
           all == IF had THEN chans
                  ELSE Append(chans, [name |-> name, running |-> FALSE,
                                      acts |-> <<>>])
           at == IF had THEN ChanAt(name) ELSE Len(chans) + 1
       IN  /\ chans' = IF aPlaying /\ ~all[at].running
                          THEN [all EXCEPT ![at].running = TRUE]
                          ELSE all
           /\ aRet' = at
    /\ aOp' = "channel"
    /\ UNCHANGED <<aMade, aFrames, aFrame, aLoops, aPlaying, aTicks>>
    /\ UNCHANGED <<clockVars, chVars, viewVars, surfVars>>

\* start(): if (state.playing) return; every channel not running is started
ActorStart ==
    /\ aMade
    /\ aOp' = IF aPlaying THEN "start" ELSE "resume"
    /\ aPlaying' = TRUE
    /\ chans' = IF aPlaying THEN chans ELSE AllChannels(TRUE)
    /\ UNCHANGED <<aMade, aFrames, aFrame, aLoops, aRet, aTicks>>
    /\ UNCHANGED <<clockVars, chVars, viewVars, surfVars>>

\* pause(): if (!state.playing) return; every running channel is stopped
ActorPause ==
    /\ aMade
    /\ aOp' = "pause"
    /\ aPlaying' = FALSE
    /\ chans' = IF aPlaying THEN AllChannels(FALSE) ELSE chans
    /\ UNCHANGED <<aMade, aFrames, aFrame, aLoops, aRet, aTicks>>
    /\ UNCHANGED <<clockVars, chVars, viewVars, surfVars>>

\* stop(): every channel is stopped
ActorStop ==
    /\ aMade
    /\ aOp' = "stop"
    /\ aPlaying' = FALSE
    /\ chans' = AllChannels(FALSE)
    /\ UNCHANGED <<aMade, aFrames, aFrame, aLoops, aRet, aTicks>>
    /\ UNCHANGED <<clockVars, chVars, viewVars, surfVars>>

\* ch.start() or ch.stop() called on a channel the actor has returned
ChannelRun(i, run) ==
    /\ i \in 1..Len(chans)
    /\ chans' = [chans EXCEPT ![i].running = run]
    /\ aOp' = "onChannel"
    /\ UNCHANGED <<aMade, aFrames, aFrame, aLoops, aPlaying, aRet, aTicks>>
    /\ UNCHANGED <<clockVars, chVars, viewVars, surfVars>>

\* ch.every(interval, fn) on a channel the actor has returned, the interval
\* being longer than all the pulses
ChannelEvery(i) ==
    /\ i \in 1..Len(chans)
    /\ chans[i].acts = <<>>
    /\ chans' = [chans EXCEPT ![i].acts = <<0>>]
    /\ aOp' = "onChannel"
    /\ UNCHANGED <<aMade, aFrames, aFrame, aLoops, aPlaying, aRet, aTicks>>
    /\ UNCHANGED <<clockVars, chVars, viewVars, surfVars>>

\* a pulse of the Clock: step(dt) of every running channel, a.elapsed += dt
ActorTick ==
    /\ aMade
    /\ aTicks < MaxActorTicks
    /\ \E i \in 1..Len(chans) : chans[i].running
    /\ aTicks' = aTicks + 1
    /\ chans' = [i \in 1..Len(chans) |->
                   IF chans[i].running
                      THEN [chans[i] EXCEPT !.acts =
                              [k \in 1..Len(chans[i].acts) |->
                                 chans[i].acts[k] + ActorDt]]
                      ELSE chans[i]]
    /\ aOp' = "tick"
    /\ UNCHANGED <<aMade, aFrames, aFrame, aLoops, aPlaying, aRet>>
    /\ UNCHANGED <<clockVars, chVars, viewVars, surfVars>>

\* an actor, its channels and the Clock
ActorNext ==
    \/ \E n \in SheetFrames : CreateActor(n)
    \/ \E name \in ChanNames : Channel(name)
    \/ ActorStart
    \/ ActorPause
    \/ ActorStop
    \/ \E i \in 1..2, run \in BOOLEAN : ChannelRun(i, run)
    \/ \E i \in 1..2 : ChannelEvery(i)
    \/ ActorTick

SpecActor == Init /\ [][ActorNext]_vars

\* an actor and the frames of its sheet
SheetNext ==
    \/ \E n \in SheetFrames : CreateActor(n)
    \/ \E n \in SheetFrames : SetSheet(n)
    \/ \E i \in FrameIndexes : SetFrame(i)
    \/ NextFrame
    \/ PrevFrame

SpecSheet == Init /\ [][SheetNext]_vars


\* ================================================================== claims
\* the callbacks a pulse has invoked so far, in order
Fns(inv) == [i \in 1..Len(inv) |-> inv[i].fn]

\* a pulse has made all its calls and is about to request or stop
CallsDone == pc = "calling" /\ idx > Len(LoopTargets)

\* the step that ends a pulse
PulseEnds == pc = "calling" /\ pc' = "idle"

\* C1: in every reachable state at most one frame request is pending, also
\* when onTick is called from inside a callback during a pulse.
C1_AtMostOnePending == Len(pending) <= 1

\* C2 (as claimed): between pulses a frame request is pending if and only if
\* the listener set is not empty.
C2_PendingIffSubscribed ==
    pc = "idle" => ((pending # <<>>) <=> (listeners # <<>>))

\* C2 (amended): between pulses, a non-empty listener set has its frame
\* request pending (the one rafId names) unless stopTicker cancelled it and
\* neither onTick nor the end of a pulse has come since.
C2_PendingWhenSubscribed ==
    (pc = "idle" /\ listeners # <<>> /\ ~stopped)
        => (rafId # Null /\ rafId \in Range(pending))

C2_Witness ==
    /\ pc = "idle"
    /\ Len(listeners) = 2
    /\ ~stopped
    /\ pulses >= 1
    /\ rafId \in Range(pending)

\* C3: every delta passed to a callback lies in [0, 100], also when two
\* consecutive frames are 5000 ms apart.
C3_DeltaClamped ==
    /\ dt \in 0..100
    /\ \A i \in 1..Len(invoked) : invoked[i].dt \in 0..100

C3_Witness ==
    /\ invoked # <<>>
    /\ invoked[1].dt = 100
    /\ pulses = 2
    /\ now >= 5000
    /\ accTime = 100

\* C4: the callbacks a pulse invokes are the listeners registered when it
\* started, each once, whatever the callbacks subscribe or unsubscribe.
C4_SnapshotInvoked ==
    pc = "calling" =>
        /\ Len(invoked) <= Len(atStart)
        /\ Fns(invoked) = SubSeq(atStart, 1, Len(invoked))
        /\ (CallsDone => Fns(invoked) = atStart)

C4_Witness ==
    /\ CallsDone
    /\ Len(invoked) = 2
    /\ invoked[2].fn \notin Range(listeners)
    /\ invoked[1].fn \in Range(listeners)

\* C5: a callback that throws stops neither the other callbacks of the pulse
\* (they get the same dt and time), nor the pulse, nor the next request.
C5_ThrowIsolated ==
    [][(PulseEnds /\ threwNow') =>
         /\ ~escaped'
         /\ Fns(invoked) = atStart
         /\ \A i \in 1..Len(invoked) :
               invoked[i].dt = dt /\ invoked[i].time = accTime
         /\ (listeners # <<>> =>
               (rafId' # Null /\ rafId' \in Range(pending') /\ rafId' \notin Range(pending)))
      ]_vars

C5_Witness ==
    /\ CallsDone
    /\ threwNow
    /\ Len(invoked) = 2
    /\ Len(listeners) = 2
    /\ ~escaped

\* C6: when the last listener removes itself from inside its own callback,
\* the pulse ends without error, requests no frame and clears the baseline;
\* and a pulse that starts with no listener invokes nothing.
C6_LastUnsubscribeStops ==
    [][/\ (PulseEnds /\ selfStop) =>
             (~escaped' /\ pending' = pending /\ rafId' = rafId /\ lastTs' = Null)
       /\ ((pc = "idle" /\ listeners = <<>> /\ pc' = "calling") =>
             (LoopTargets' = <<>> /\ invoked' = <<>>))
       /\ ((pc = "calling" /\ atStart = <<>>) => invoked' = <<>>)
      ]_vars

C6_Witness ==
    /\ pc = "idle"
    /\ selfStop
    /\ listeners = <<>>
    /\ lastTs = Null
    /\ pending = <<>>
    /\ pulses >= 1
    /\ accTime > 0

\* C7 (as claimed): after the listener count dropped from 1 to 0, the first
\* pulse that delivers to a callback again has delta 0.
C7_FreshBaselineAfterDrop ==
    (pc = "calling" /\ dropped /\ atStart # <<>>) => dt = 0

\* C7 (amended): after a pulse has ended with no listener, the first pulse
\* that delivers to a callback again has delta 0.
C7_FreshBaselineAfterIdle ==
    (pc = "calling" /\ wentIdle /\ atStart # <<>>) => dt = 0

C7_Witness ==
    /\ pc = "calling"
    /\ wentIdle
    /\ dropped
    /\ invoked # <<>>
    /\ invoked[1].dt = 0
    /\ now >= 5000

\* C8: accTime never decreases and only a pulse changes it, by that pulse's
\* clamped delta; the time passed to a callback is the sum of the deltas.
C8_AccTimeMonotone ==
    /\ [](accTime = sumDt /\ \A i \in 1..Len(invoked) : invoked[i].time = sumDt)
    /\ [][/\ accTime' >= accTime
          /\ ((pc = "idle" /\ pc' = "calling") => accTime' = accTime + dt')
          /\ (~(pc = "idle" /\ pc' = "calling") => accTime' = accTime)
         ]_vars

C8_Witness ==
    /\ pc = "idle"
    /\ stopped
    /\ wentIdle
    /\ listeners = <<>>
    /\ accTime = 100

\* C9: the function onTick returned removes its own registration on its first
\* call, and any later call of it changes nothing.
C9_UnsubscribeOnce ==
    [][\A c \in 1..Len(closures) :
          closures'[c].calls > closures[c].calls =>
             IF closures[c].calls = 0
                THEN listeners' = SetDelete(listeners, closures[c].h)
                ELSE listeners' = listeners
      ]_vars

\* C10: a callback registered twice stays registered after one, and only
\* one, of the two returned functions has been called.
C10_IndependentRegistrations ==
    \A c1, c2 \in 1..Len(closures) :
        (/\ c1 # c2
         /\ closures[c1].h = closures[c2].h
         /\ closures[c1].calls = 1
         /\ closures[c2].calls = 0
         /\ \A c3 \in 1..Len(closures) :
               (c3 # c1 /\ closures[c3].h = closures[c1].h) => closures[c3].calls = 0)
        => closures[c1].h \in Range(listeners)

\* C11: a call of stopTicker leaves no frame request pending and no
\* timestamp baseline, and leaves the listener set and the accumulated time
\* as they were.
C11_StopCancelsPending ==
    [][StopTicker => /\ pending' = <<>>
                     /\ rafId' = Null
                     /\ lastTs' = Null
                     /\ listeners' = listeners
                     /\ accTime' = accTime
      ]_vars

\* C12: after stopTicker with listeners still registered and no pulse
\* running, a call of onTick, and a call of a returned unsubscribe function
\* that leaves the set non-empty, requests a frame.
C12_ActivityReRequests ==
    [][(stopped /\ pc = "idle" /\ listeners # <<>>) =>
          /\ \A h \in Handlers :
                OnTick(h) => (rafId' # Null /\ rafId' \in Range(pending'))
          /\ \A c \in 1..Len(closures) :
                (Unsubscribe(c) /\ listeners' # <<>>) =>
                   (rafId' # Null /\ rafId' \in Range(pending'))
      ]_vars

\* the action whose fn step has called and that has not returned yet
InCall == cpc = "step" /\ phase = "called"
Current == objs[StepTargets[si]]

\* C13: a tick that brings the elapsed time of a periodic action with a
\* positive interval and catchUp to at least the interval calls fn
\* floor(elapsed / interval) times and leaves elapsed mod interval.
C13_CatchUpFiresFloor ==
    (InCall /\ Current.kind = "every" /\ Current.period > 0 /\ Current.catchUp)
    => /\ eCredit >= Current.period
       /\ madeCalls + fireLeft = eCredit \div Current.period
       /\ madeCalls >= 1
       /\ fireLeft >= 0
       /\ Current.elapsed = eCredit % Current.period

\* interval 200 and one tick of 500: the second and last call, 100 left
C13_Witness ==
    /\ InCall
    /\ Current.kind = "every" /\ Current.catchUp
    /\ Current.period = 200
    /\ Current.got = 500
    /\ eCredit = 500
    /\ madeCalls = 2
    /\ fireLeft = 0
    /\ Current.elapsed = 100

\* C14: a periodic action with a positive interval and catchUp false is
\* called once in a tick that finds it due, one interval is taken from its
\* elapsed time, and calls x interval + elapsed is all the dt it received.
C14_NoCatchUpKeepsLate ==
    /\ \A id \in 1..Len(objs) :
          (objs[id].kind = "every" /\ objs[id].period > 0 /\ ~objs[id].catchUp)
          => objs[id].fired * objs[id].period + objs[id].elapsed = objs[id].got
    /\ (InCall /\ Current.kind = "every" /\ Current.period > 0
               /\ ~Current.catchUp)
       => /\ madeCalls = 1
          /\ fireLeft = 0
          /\ Current.elapsed = eCredit - Current.period

\* two ticks of 500 on interval 200: two calls, 600 carried on
C14_Witness ==
    \E id \in 1..Len(objs) :
        /\ objs[id].kind = "every" /\ ~objs[id].catchUp
        /\ objs[id].period = 200
        /\ objs[id].seen = 2
        /\ objs[id].got = 1000
        /\ objs[id].fired = 2
        /\ objs[id].elapsed = 600

C16_ZeroIntervalEachTick ==
    /\ \A id \in 1..Len(objs) :
          (objs[id].kind = "every" /\ objs[id].period = 0)
          => objs[id].fired = objs[id].seen
    /\ (InCall /\ Current.kind = "every" /\ Current.period = 0)
       => (madeCalls = 1 /\ fireLeft = 0)

\* two ticks of different dt, two calls
C16_Witness ==
    \E id \in 1..Len(objs) :
        /\ objs[id].kind = "every" /\ objs[id].period = 0
        /\ objs[id].seen = 2
        /\ objs[id].got = 900
        /\ objs[id].fired = 2
        /\ cpc = "idle"

\* C17: cancel with a name string removes the actions of that name and
\* leaves the others, their order and their counters as they were; cancel
\* without an argument removes all actions; neither changes running or the
\* subscription.
C17_CancelByName ==
    [][/\ \A n \in NameStrings :
             Cancel(n) =>
                /\ actions' = SelectSeq(actions, LAMBDA id : objs[id].name # n)
                /\ objs' = objs
                /\ <<running, unsub, subs>>' = <<running, unsub, subs>>
       /\ Cancel(Undef) =>
             /\ actions' = <<>>
             /\ <<running, unsub, subs>>' = <<running, unsub, subs>>
      ]_vars

\* C18: an action that cancel has removed is not called again, also when
\* cancel was called by the callback of another action during a tick: the
\* first call step makes for an item is to an action that is in the channel
\* at that moment.
C18_NoCallAfterCancel ==
    [][\A id \in 1..Len(objs) :
          (phase = "advance" /\ objs'[id].fired > objs[id].fired)
          => id \in Range(actions)
      ]_vars

\* C19: an action scheduled by a callback during a tick is neither called
\* nor credited with dt in that tick; the next tick is the first to advance
\* it.
C19_ScheduledInTickWaits ==
    \A id \in 1..Len(objs) :
        (objs[id].born > 0 /\ objs[id].born = ticks)
        => /\ objs[id].elapsed = 0
           /\ objs[id].got = 0
           /\ objs[id].seen = 0
           /\ objs[id].fired = 0

\* scheduled in the first tick, advanced by the second
C19_Witness ==
    \E id \in 1..Len(objs) :
        /\ objs[id].born = 1
        /\ ticks = 2
        /\ objs[id].seen = 1
        /\ objs[id].got > 0

\* C20: the channel holds a subscription to the Clock exactly when it is
\* running and never more than one, whatever start, stop and destroy calls
\* were made; start on a running channel and stop on a stopped one change
\* nothing.
C20_OneSubscriptionIffRunning ==
    /\ [](/\ Cardinality(subs) <= 1
          /\ running <=> unsub # Null
          /\ running <=> subs # {}
          /\ unsub # Null => subs = {unsub})
    /\ [][/\ (running /\ Start) => UNCHANGED vars
          /\ (~running /\ Stop) => UNCHANGED vars
        ]_vars

\* running again after a stop made by a callback during a tick
C20_Witness ==
    /\ InCall
    /\ running
    /\ subs = {unsub}
    /\ \E id \in 1..Len(objs) : objs[id].born > 0

\* a step of the tick handler
StepTaken ==
    \/ \E d \in TickDts : StepBegin(d)
    \/ StepAdvance
    \/ \E t \in BOOLEAN : StepReturn(t)

\* C21: stop and a later start leave the array of actions and the elapsed
\* time of every action as they were when stop was called: neither call
\* changes them, and no time is credited while the channel is stopped.
C21_StoppedTimeNotCredited ==
    [][/\ (Stop \/ Start) => (actions' = actions /\ objs' = objs)
       /\ (~running /\ StepTaken) =>
             /\ actions' = actions
             /\ \A id \in 1..Len(objs) : objs'[id].elapsed = objs[id].elapsed
      ]_vars

\* C22: from the return of stop to the next start no action of the channel
\* is called, also when stop was called by a callback of the channel during
\* a tick or by another listener of the Clock earlier in the pulse.
C22_NoCallWhileStopped ==
    [][\A id \in 1..Len(objs) :
          objs'[id].fired > objs[id].fired => running
      ]_vars

\* the calls of a.fn step has made or is still to make for an action, in all
CallsOwed(id) ==
    objs[id].fired + (IF InCall /\ StepTargets[si] = id THEN fireLeft ELSE 0)

\* C23: a callback that throws during a tick changes nothing of the tick:
\* the error does not leave step, the for-of goes through all its items,
\* every periodic action is called as often as its credited time asks, and
\* the action that threw stays scheduled.
C23_ThrowChangesNothing ==
    /\ [](/\ ~chEscaped
          /\ \A id \in 1..Len(objs) :
                (objs[id].kind = "every" /\ objs[id].period > 0)
                => CallsOwed(id) * objs[id].period + objs[id].elapsed
                      = objs[id].got)
    /\ [][/\ (cpc = "step" /\ cpc' = "idle") => si = Len(items)
          /\ (cpc = "step" /\ cpc' = "step" /\ si' # si) => si' = si + 1
          /\ StepReturn(TRUE) =>
                /\ Current.kind = "every" => actions' = actions
                /\ fireLeft > 0 =>
                      (InCall' /\ si' = si /\ fireLeft' = fireLeft - 1)
                /\ (fireLeft = 0 /\ si < Len(items)) =>
                      (cpc' = "step" /\ si' = si + 1 /\ phase' = "advance")
        ]_vars

\* the first action threw in the first tick; both actions were advanced in
\* both ticks, and the first is still scheduled and was called in the second
C23_Witness ==
    /\ Len(objs) = 2
    /\ threwAt = [id |-> 1, tick |-> 1, imm |-> FALSE]
    /\ ticks = 2
    /\ cpc = "idle"
    /\ objs[1].kind = "every" /\ objs[1].seen = 2 /\ objs[1].fired >= 4
    /\ 1 \in Range(actions)
    /\ objs[2].born = 0 /\ objs[2].seen = 2 /\ objs[2].fired >= 1

\* C24: every with immediate calls fn once at registration, on a running
\* and on a stopped channel alike, outside the accounting of step (elapsed
\* and the count of step's calls stay 0); an error of that call does not
\* leave every, and the action is registered all the same.
C24_ImmediateOnceAtRegistration ==
    /\ [](/\ ~chEscaped
          /\ \A id \in 1..Len(objs) :
                /\ objs[id].imm <= 1
                /\ objs[id].seen = 0 => (objs[id].elapsed = 0 /\ objs[id].fired = 0))
    /\ [][/\ \A id \in 1..Len(objs) : objs'[id].imm = objs[id].imm
          /\ \A i \in Intervals, c \in BOOLEAN, t \in BOOLEAN :
                Every(i, Undef, c, TRUE, t) =>
                   /\ objs'[Len(objs')].imm = 1
                   /\ objs'[Len(objs')].elapsed = 0
                   /\ Len(objs') \in Range(actions')
                   /\ running' = running
        ]_vars

\* registered on a stopped channel with a callback that threw
C24_Witness ==
    /\ ~running
    /\ Len(objs) = 1
    /\ threwAt = [id |-> 1, tick |-> 0, imm |-> TRUE]
    /\ objs[1].imm = 1
    /\ objs[1].elapsed = 0
    /\ actions = <<1>>

\* C25: destroy leaves the channel stopped, without subscription and
\* without actions, and no action scheduled before it is called afterwards,
\* also when destroy was called by a callback during a tick.
C25_DestroyStopsAndDiscards ==
    [][/\ Destroy => /\ ~running'
                     /\ unsub' = Null
                     /\ subs' = {}
                     /\ actions' = <<>>
       /\ \A id \in 1..Len(objs) :
             objs'[id].fired > objs[id].fired => id > destroyedTo
      ]_vars

\* C26: the interval or delay stored for a number argument is the argument
\* itself when it is not negative, also beyond the int32 range, and 0 when
\* it is negative.
C26_StoredIsFloorOrZero ==
    \A id \in 1..Len(objs) :
        IF objs[id].arg[1] >= 0
           THEN Num(objs[id].period) = objs[id].arg
           ELSE objs[id].period = 0

\* the last updateFollow was given a view
Followed == lastView # NoCall /\ lastView # NoView

\* the offset a deadzone of half-size dz asks for on one axis: prev, the
\* offset before, when the centre c is within dz of the viewport's centre,
\* else prev moved by what c is beyond the nearer edge
DeadzoneExpected(prev, c, size, dz) ==
    LET vc == prev + Half(size)
    IN  IF c > vc + dz THEN prev + (c - (vc + dz))
        ELSE IF c < vc - dz THEN prev - ((vc - dz) - c)
        ELSE prev

\* C27: in deadzone mode updateFollow leaves the offset as it was while the
\* entity's centre is inside the deadzone around the viewport's centre, and
\* else moves it on each axis by the overshoot beyond the nearer edge.
C27_DeadzoneOvershoot ==
    (vpKind = "camera" /\ follow = "deadzone" /\ Followed) =>
       LET size == CameraLogicalSize(lastView)
       IN  /\ camX = DeadzoneExpected(prevCam[1], CenterX(lastView), size[1],
                                      deadzone[1])
           /\ camY = DeadzoneExpected(prevCam[2], CenterY(lastView), size[2],
                                      deadzone[2])

\* half-size (20, 20), viewport centre (100, 100), entity centre (125, 100):
\* x moves by 5, y stays
C27_Witness ==
    /\ vpKind = "camera" /\ follow = "deadzone"
    /\ deadzone = <<20, 20>>
    /\ baseSize = <<200, 200>>
    /\ prevCam = <<0, 0>>
    /\ lastView.anchor = "center" /\ lastView.x = 125 /\ lastView.y = 100
    /\ camX = 5
    /\ camY = 0

\* C28: the cage's offset after updateFollow is the top-left corner of the
\* entity: its position less half its rendered size for the anchor center,
\* its position for the anchor topleft, and (0, 0) without entity.
C28_CageTopLeft ==
    (vpKind = "cage" /\ lastView # NoCall) =>
       IF lastView = NoView
          THEN camX = 0 /\ camY = 0
          ELSE IF lastView.anchor = "center"
                  THEN /\ 2 * camX = 2 * lastView.x - lastView.sw * lastView.scale
                       /\ 2 * camY = 2 * lastView.y - lastView.sh * lastView.scale
                  ELSE camX = lastView.x /\ camY = lastView.y

\* anchor center, position (50, 50), rendered size (20, 10): (40, 45)
C28_Witness ==
    /\ vpKind = "cage"
    /\ lastView.anchor = "center"
    /\ lastView.x = 50 /\ lastView.y = 50
    /\ RenderedW(lastView) = 20 /\ RenderedH(lastView) = 10
    /\ camX = 40
    /\ camY = 45

\* C29: in center mode, after updateFollow with an entity the offset plus
\* half the logical size is the entity's centre on both axes, whatever the
\* offset was before.
C29_CenterModeCentres ==
    (vpKind = "camera" /\ follow = "center" /\ Followed) =>
       LET size == CameraLogicalSize(lastView)
       IN  /\ 2 * camX + size[1] = 2 * CenterX(lastView)
           /\ 2 * camY + size[2] = 2 * CenterY(lastView)

\* a second updateFollow, from an offset that is neither (0, 0) nor the new
\* one
C29_Witness ==
    /\ vpKind = "camera" /\ follow = "center" /\ Followed
    /\ prevCam # <<0, 0>>
    /\ prevCam # <<camX, camY>>
    /\ lastView.anchor = "topleft"
    /\ padding = <<4, 4>>
    /\ baseSize = NoSize

\* C30: in none mode updateFollow with an entity leaves the offset as it
\* was, and in every mode updateFollow without entity sets it to (0, 0).
C30_NoneKeepsNoViewResets ==
    vpKind = "camera" =>
       /\ (follow = "none" /\ Followed) => <<camX, camY>> = prevCam
       /\ lastView = NoView => <<camX, camY>> = <<0, 0>>

\* the entity went away while the offset was not (0, 0)
C30_Witness ==
    /\ vpKind = "camera"
    /\ lastView = NoView
    /\ prevCam # <<0, 0>>
    /\ camX = 0 /\ camY = 0

\* the size the camera is to return: the base size when there is one, the
\* function's value at the call when it is one, else the rendered size of
\* the view with k times the padding added, else 64 x 64
CameraSizeWith(view, k) ==
    IF baseSize = DynamicSize THEN ParentBaseSize
    ELSE IF baseSize # NoSize THEN baseSize
    ELSE IF view # NoView
            THEN <<view.sw * view.scale + k * padding[1],
                   view.sh * view.scale + k * padding[2]>>
    ELSE <<64, 64>>

\* the cage's: the rendered size of the view, else 64 x 64
CageSizeOf(view) ==
    IF view # NoView THEN <<view.sw * view.scale, view.sh * view.scale>>
    ELSE <<64, 64>>

FrameSize(f) ==
    LET v == IF f = 0 THEN NoView ELSE created[f].view
    IN  IF vpKind = "cage" THEN CageSizeOf(v) ELSE CameraSizeWith(v, 2)

\* the calls of a frame are, in this order: updateFollow, setLogicalSize with
\* the size of the followed view, placeCanvas for the cage only, clear,
\* begin with the viewport's offset, one draw for each view of the surface
\* with z never decreasing, end
FrameLogInOrder ==
    LET n == Len(sViews)
        pre == IF vpKind = "cage" THEN 3 ELSE 2
    IN  /\ Len(rlog) = pre + n + 3
        /\ rlog[1].op = "updateFollow"
        /\ rlog[2] = Call("setLogicalSize", FrameSize(rlog[1].a)[1],
                          FrameSize(rlog[1].a)[2])
        /\ vpKind = "cage" => rlog[3].op = "placeCanvas"
        /\ rlog[pre + 1].op = "clear"
        /\ rlog[pre + 2] = Call("begin", camX, camY)
        /\ \A i \in 1..n : rlog[pre + 2 + i].op = "draw"
        /\ {rlog[pre + 2 + i].a : i \in 1..n} = Range(sViews)
        /\ \A i, j \in 1..n :
              i < j => created[rlog[pre + 2 + i].a].z
                          <= created[rlog[pre + 2 + j].a].z
        /\ rlog[pre + n + 3].op = "end"

SurfaceHandlers == {tickSubs[i] : i \in 1..Len(tickSubs)} \ {0}

\* C33: whatever calls of play, pause and destroy were made, the Clock holds
\* at most one tick handler of the surface, and a pulse calls frame() at
\* most once.
C33_AtMostOneSubscription ==
    /\ Cardinality(SurfaceHandlers) <= 1
    /\ framesNow <= 1

\* C34: after pause() has returned and until play() is called, frame()
\* makes no call on the viewport or the renderer, also when pause() was
\* called by another subscriber of the Clock or by a listener of an event
\* during a pulse.
C34_NoFrameAfterPause == sincePause # "rendered"

\* C38: the followed view is absent or one of the views the surface
\* tracks, and nothing is followed once the surface has no view left.
C38_FollowedIsTracked == sFollow = 0 \/ sFollow \in Range(sViews)

\* C35: between the ticks a periodic action with a positive interval and
\* catchUp has 0 <= elapsed < interval, and it has been called
\* floor(total dt it was credited / interval) times by the ticks in all.
C35_CatchUpTotal ==
    cpc = "idle" =>
       \A id \in 1..Len(objs) :
          (objs[id].kind = "every" /\ objs[id].period > 0 /\ objs[id].catchUp)
          => /\ 0 <= objs[id].elapsed
             /\ objs[id].elapsed < objs[id].period
             /\ objs[id].fired = objs[id].got \div objs[id].period

\* interval 200, ticks of 500 and 500: 2 calls with 100 left, then 3 more
C35_Witness ==
    /\ cpc = "idle"
    /\ \E id \in 1..Len(objs) :
          /\ objs[id].kind = "every" /\ objs[id].catchUp
          /\ objs[id].period = 200
          /\ objs[id].seen = 2
          /\ objs[id].got = 1000
          /\ objs[id].fired = 5
          /\ objs[id].elapsed = 0

\* the distance of a from b
Dist(a, b) == IF a < b THEN b - a ELSE a - b

\* C36: in deadzone mode, after updateFollow with an entity its centre is
\* within the deadzone around the centre of the viewport on both axes, and
\* an updateFollow that is given the same entity again leaves the offset as
\* it is.
C36_DeadzoneHoldsEntity ==
    /\ []((vpKind = "camera" /\ follow = "deadzone" /\ Followed) =>
            LET size == CameraLogicalSize(lastView)
            IN  /\ Dist(CenterX(lastView), camX + Half(size[1]))
                      <= deadzone[1]
                /\ Dist(CenterY(lastView), camY + Half(size[2]))
                      <= deadzone[2])
    /\ [][\A v \in Views :
             (follow = "deadzone" /\ lastView = v /\ CameraUpdateFollow(v))
             => (camX' = camX /\ camY' = camY)]_vars

\* the entity at (125, 100) has moved the offset to (5, 0), where its
\* centre is on the right edge of the deadzone; the second updateFollow
\* has left it there
C36_Witness ==
    /\ vpKind = "camera" /\ follow = "deadzone"
    /\ deadzone = <<20, 20>>
    /\ baseSize = <<200, 200>>
    /\ lastView.anchor = "center" /\ lastView.x = 125 /\ lastView.y = 100
    /\ prevCam = <<5, 0>>
    /\ camX = 5
    /\ camY = 0

\* the offset a camera in center mode, of the same padding and base size,
\* has after updateFollow(view)
CenterModeOffset(view) ==
    IF view = NoView THEN OffsetWithoutView(camX, camY)
    ELSE LET size == CameraLogicalSize(view)
         IN  <<CenterOffset(CenterX(view), size[1]),
               CenterOffset(CenterY(view), size[2])>>

\* C37: a camera in deadzone mode with the half-size (0, 0) has, after every
\* updateFollow of any sequence, the offset a camera in center mode has
\* after the same call.
C37_ZeroDeadzoneIsCenter ==
    (vpKind = "camera" /\ follow = "deadzone" /\ deadzone = <<0, 0>>
       /\ lastView # NoCall)
    => <<camX, camY>> = CenterModeOffset(lastView)

\* the entity has gone back to the left and up, from (125, 100) to (50, 50),
\* and the offset with it, from (115, 95) to (40, 45)
C37_Witness ==
    /\ vpKind = "camera" /\ follow = "deadzone" /\ deadzone = <<0, 0>>
    /\ baseSize = NoSize
    /\ padding = <<0, 0>>
    /\ prevCam = <<115, 95>>
    /\ Followed
    /\ lastView.x = 50 /\ lastView.y = 50
    /\ camX = 40
    /\ camY = 45

\* C39: channel(name) returns one channel per name, running when the actor
\* is playing; right after pause() or stop() no channel of the actor is
\* running, right after a start() of a paused actor all are; and start,
\* pause and stop leave the actions of the channels and their elapsed time
\* as they were.
C39_ChannelsFollowActor ==
    /\ [](/\ \A i, j \in 1..Len(chans) :
                chans[i].name = chans[j].name => i = j
          /\ aOp = "channel" =>
                /\ aRet \in 1..Len(chans)
                /\ aPlaying => chans[aRet].running
          /\ aOp \in {"pause", "stop"} =>
                \A i \in 1..Len(chans) : ~chans[i].running
          /\ aOp = "resume" =>
                \A i \in 1..Len(chans) : chans[i].running)
    /\ [][(ActorStart \/ ActorPause \/ ActorStop) =>
             /\ Len(chans') = Len(chans)
             /\ \A i \in 1..Len(chans) :
                   /\ chans'[i].name = chans[i].name
                   /\ chans'[i].acts = chans[i].acts]_vars

\* C40: state.frame is in [0 .. frames - 1] of the current sheet after
\* every call of setFrame, nextFrame, prevFrame and setSheet, and
\* state.loops grows by one when nextFrame leaves the frame at 0 and is
\* unchanged by every other call.
C40_FrameInRangeLoopsCounted ==
    /\ [](aMade => (0 <= aFrame /\ aFrame < TotalFrames(aFrames)))
    /\ [][aLoops' = IF NextFrame /\ aFrame' = 0 THEN aLoops + 1
                                                ELSE aLoops]_vars

====
